---- MODULE Spec2Model ----
(***************************************************************************)
(* spotify-audio-previews: the identifier parser (parser.utils.ts), the    *)
(* error classes (errors.ts) and getPreview (index.ts).                    *)
(*                                                                         *)
(* A JavaScript string is a sequence of one-character strings, so that     *)
(* String.includes, the regular expressions and the template literal are   *)
(* computed character by character.                                        *)
(***************************************************************************)
EXTENDS Integers, Sequences, FiniteSets, TLC

VARIABLES
    pc,        \* per call: "idle", "awaitFetch", "awaitText", "done"
    track,     \* per call: the track argument
    throws,    \* per call: the value of options?.throws
    trackId,   \* per call: the local trackId (Undefined until assigned)
    requests,  \* per call: the URLs passed to fetch, in order
    response,  \* per call: what the transport settled with
    outcome,   \* per call: how the returned promise settled
    parsed,    \* last direct call of an exported parser function
    currentLogger,  \* Logger.currentLogger, the object the export `logger` names
    globalConfig,   \* the module variable globalConfig of index.ts
    log,       \* per call: the logger processTrack was given
    emitted    \* per call: what its last step wrote to the console or a custom sink

callVars == <<pc, track, throws, trackId, requests, response, outcome>>

loggerVars == <<currentLogger, globalConfig, log, emitted>>

vars == <<callVars, parsed, loggerVars>>

(***************************************************************************)
(* Strings                                                                 *)
(***************************************************************************)
Lower == {"a","b","c","d","e","f","g","h","i","j","k","l","m",
          "n","o","p","q","r","s","t","u","v","w","x","y","z"}
Upper == {"A","B","C","D","E","F","G","H","I","J","K","L","M",
          "N","O","P","Q","R","S","T","U","V","W","X","Y","Z"}
Digit == {"0","1","2","3","4","5","6","7","8","9"}

\* the character class [a-zA-Z0-9]
Alnum == Lower \cup Upper \cup Digit

\* the character class \s (the ASCII members)
Whitespace == {" ", "\t", "\n", "\r"}

\* an optional value: Undefined, or Some(v)
Undefined == <<>>
Some(v) == <<v>>

\* String.prototype.includes
Includes(s, sub) ==
    \E i \in 1..(Len(s) - Len(sub) + 1) : SubSeq(s, i, i + Len(sub) - 1) = sub

\* the literal lit occurs in s at index i
LitAt(s, i, lit) ==
    /\ i >= 1
    /\ i + Len(lit) - 1 <= Len(s)
    /\ SubSeq(s, i, i + Len(lit) - 1) = lit

AllAlnum(s) == \A i \in 1..Len(s) : s[i] \in Alnum

Min(S) == CHOOSE x \in S : \A y \in S : x <= y
Max(S) == CHOOSE x \in S : \A y \in S : x >= y

SPOTIFY_COM == <<"s","p","o","t","i","f","y",".","c","o","m">>
TRACK_SEGMENT == <<"/","t","r","a","c","k","/">>
HTTPS == <<"h","t","t","p","s",":","/","/">>
EMBED_PREFIX == <<"h","t","t","p","s",":","/","/","o","p","e","n",".","s","p","o","t","i","f","y",".","c","o","m","/","e","m","b","e","d","/","t","r","a","c","k","/">>
AUDIO_PREVIEW_KEY == <<"\"","a","u","d","i","o","P","r","e","v","i","e","w","\"",":">>
URL_KEY == <<"\"","u","r","l","\"",":">>

\* the {22} of the track id pattern
TrackIdLength == 22

(***************************************************************************)
(* errors.ts                                                               *)
(* An error object is its class name (this.name = this.constructor.name),  *)
(* the string its message embeds, and the fields the class declares.       *)
(***************************************************************************)
PreviewErrorNames ==
    {"SpotifyPreviewError", "InvalidTrackIdError", "InvalidSpotifyUrlError",
     "NoPreviewAvailableError", "SpotifyApiError"}

\* error instanceof SpotifyPreviewError
IsSpotifyPreviewError(e) == e.name \in PreviewErrorNames

SpotifyPreviewError(about) ==
    [name |-> "SpotifyPreviewError", about |-> about,
     trackId |-> Undefined, statusCode |-> Undefined]

InvalidTrackIdError(id) ==
    [name |-> "InvalidTrackIdError", about |-> id,
     trackId |-> Undefined, statusCode |-> Undefined]

InvalidSpotifyUrlError(url) ==
    [name |-> "InvalidSpotifyUrlError", about |-> url,
     trackId |-> Undefined, statusCode |-> Undefined]

NoPreviewAvailableError(id) ==
    [name |-> "NoPreviewAvailableError", about |-> id,
     trackId |-> Some(id), statusCode |-> Undefined]

SpotifyApiError(about, statusCode) ==
    [name |-> "SpotifyApiError", about |-> about,
     trackId |-> Undefined, statusCode |-> statusCode]

\* an error the platform raises (TypeError of fetch, of a property access)
PlatformError(about) ==
    [name |-> "TypeError", about |-> about,
     trackId |-> Undefined, statusCode |-> Undefined]

\* how a function call or a promise ends
Return(v) == [kind |-> "return", value |-> v]
Throw(e) == [kind |-> "throw", value |-> e]
Pending == [kind |-> "pending", value |-> Undefined]

(***************************************************************************)
(* parser.utils.ts                                                         *)
(***************************************************************************)
\* mutant: the pattern without its anchors, /[a-zA-Z0-9]{22}/
TrackIdRegexTestUnanchored(s) ==
    \E i \in 1..(Len(s) - TrackIdLength + 1) :
        AllAlnum(SubSeq(s, i, i + TrackIdLength - 1))

\* /^[a-zA-Z0-9]{22}$/.test(s): no flags, so ^ and $ are the ends of s
TrackIdRegexTest(s) ==
    /\ Len(s) = TrackIdLength
    /\ AllAlnum(s)

validateSpotifyTrackId(id) ==
    IF ~TrackIdRegexTest(id)
    THEN Throw(InvalidTrackIdError(id))
    ELSE Return(TRUE)

\* mutant: the pattern without the '?' alternative, /\/track\/([a-zA-Z0-9]+)$/
TrackRegexMatchesAtEndOnly(s, i, k) ==
    /\ LitAt(s, i, TRACK_SEGMENT)
    /\ k >= 1
    /\ i + Len(TRACK_SEGMENT) + k - 1 = Len(s)
    /\ AllAlnum(SubSeq(s, i + Len(TRACK_SEGMENT), i + Len(TRACK_SEGMENT) + k - 1))

\* mutant: the pattern without its terminator, /\/track\/([a-zA-Z0-9]+)/
TrackRegexMatchesAtUnterminated(s, i, k) ==
    /\ LitAt(s, i, TRACK_SEGMENT)
    /\ k >= 1
    /\ i + Len(TRACK_SEGMENT) + k - 1 <= Len(s)
    /\ AllAlnum(SubSeq(s, i + Len(TRACK_SEGMENT), i + Len(TRACK_SEGMENT) + k - 1))

\* /\/track\/([a-zA-Z0-9]+)(?:\?|$)/ tried at index i of s with the group
\* taking k characters: the literal, k >= 1 alphanumerics, then '?' or the end
TrackRegexMatchesAt(s, i, k) ==
    /\ LitAt(s, i, TRACK_SEGMENT)
    /\ k >= 1
    /\ i + Len(TRACK_SEGMENT) + k - 1 <= Len(s)
    /\ AllAlnum(SubSeq(s, i + Len(TRACK_SEGMENT), i + Len(TRACK_SEGMENT) + k - 1))
    /\ LET after == i + Len(TRACK_SEGMENT) + k
       IN  \/ after = Len(s) + 1
           \/ (after <= Len(s) /\ s[after] = "?")

\* url.match(regex): the leftmost index that matches, the greedy group there;
\* Undefined for null, Some(match[1]) otherwise
TrackRegexMatch(s) ==
    LET starts == {i \in 1..Len(s) : \E k \in 1..Len(s) : TrackRegexMatchesAt(s, i, k)}
    IN  IF starts = {}
        THEN Undefined
        ELSE LET i == Min(starts)
                 k == Max({j \in 1..Len(s) : TrackRegexMatchesAt(s, i, j)})
             IN  Some(SubSeq(s, i + Len(TRACK_SEGMENT), i + Len(TRACK_SEGMENT) + k - 1))

\* mutant: the includes("spotify.com") test of the guard is missing
extractTrackIdFromUrlNoHostTest(url) ==
    IF ~Includes(url, TRACK_SEGMENT)
    THEN Throw(InvalidSpotifyUrlError(url))
    ELSE LET match == TrackRegexMatch(url)
         IN  IF match = Undefined \/ match[1] = <<>>
             THEN Throw(InvalidSpotifyUrlError(url))
             ELSE Return(match[1])

extractTrackIdFromUrl(url) ==
    IF ~Includes(url, SPOTIFY_COM) \/ ~Includes(url, TRACK_SEGMENT)
    THEN Throw(InvalidSpotifyUrlError(url))
    ELSE LET match == TrackRegexMatch(url)
         IN  IF match = Undefined \/ match[1] = <<>>
             THEN Throw(InvalidSpotifyUrlError(url))
             ELSE Return(match[1])

(***************************************************************************)
(* index.ts: getPreview                                                    *)
(***************************************************************************)
\* mutant: options.throws !== undefined
TruthyIfPresent(v) == v # "undefined"

\* options?.throws as a condition
Truthy(v) == v = "true"

\* the null that getPreview resolves to; a url it resolves to is Some(url)
Null == Undefined

\* mutant: the extracted id is validated too, as the raw id is
ResolveIdentifierRevalidates(t) ==
    LET id == IF Includes(t, SPOTIFY_COM) THEN extractTrackIdFromUrl(t) ELSE Return(t)
    IN  IF id.kind = "throw"
        THEN [trackId |-> Undefined, end |-> id]
        ELSE LET r == validateSpotifyTrackId(id.value)
             IN  IF r.kind = "throw"
                 THEN [trackId |-> Some(id.value), end |-> r]
                 ELSE [trackId |-> Some(id.value), end |-> id]

\* the first try block: which branch runs, what trackId is assigned, and how
\* the block ends
ResolveIdentifier(t) ==
    IF Includes(t, SPOTIFY_COM)
    THEN LET r == extractTrackIdFromUrl(t)
         IN  IF r.kind = "throw"
             THEN [trackId |-> Undefined, end |-> r]
             ELSE [trackId |-> Some(r.value), end |-> r]
    ELSE LET r == validateSpotifyTrackId(t)
         IN  IF r.kind = "throw"
             THEN [trackId |-> Some(t), end |-> r]
             ELSE [trackId |-> Some(t), end |-> Return(t)]

\* mutant: the catch wraps every error in the base class
IdentifierCatchWraps(error) ==
    Throw(SpotifyPreviewError(error.about))

\* the catch of the first try block
IdentifierCatch(error) ==
    IF IsSpotifyPreviewError(error)
    THEN Throw(error)
    ELSE Throw(SpotifyPreviewError(error.about))

\* mutant: the track page instead of the embed page
EmbedUrlTrackPage(id) ==
    <<"h","t","t","p","s",":","/","/","o","p","e","n",".","s","p","o","t","i","f","y",".","c","o","m">>
      \o TRACK_SEGMENT \o id

\* `https://open.spotify.com/embed/track/${trackId}`
EmbedUrl(id) == EMBED_PREFIX \o id

\* mutant: redirects count as success
OkBelow400(status) == status >= 200 /\ status < 400

\* Response.ok
Ok(status) == status >= 200 /\ status < 300

\* if (!response.ok) throw new SpotifyApiError(..., response.status)
StatusCheck(r) ==
    IF ~Ok(r.status)
    THEN Throw(SpotifyApiError(<<>>, Some(r.status)))
    ELSE Return(TRUE)

\* \s* from index i: the index of the first character that is not whitespace
\* (what follows \s* in the pattern is never whitespace, so the greedy run is
\* the only one that can match)
SkipWhitespace(s, i) ==
    Min({j \in i..(Len(s) + 1) : j > Len(s) \/ s[j] \notin Whitespace})

CharAt(s, i, c) == i >= 1 /\ i <= Len(s) /\ s[i] = c

\* "([^"]+)" from the index q after the opening quote: the index of the
\* closing quote (Len(s) + 1 when there is none)
ClosingQuote(s, q) ==
    Min({j \in q..(Len(s) + 1) : j > Len(s) \/ s[j] = "\""})

\* /"audioPreview":\s*\{\s*"url":\s*"([^"]+)"\s*\}/ tried at index i:
\* Undefined when it does not match there, Some(group 1) when it does
AudioPreviewMatchAt(s, i) ==
    IF ~LitAt(s, i, AUDIO_PREVIEW_KEY) THEN Undefined ELSE
    LET brace == SkipWhitespace(s, i + Len(AUDIO_PREVIEW_KEY)) IN
    IF ~CharAt(s, brace, "{") THEN Undefined ELSE
    LET key == SkipWhitespace(s, brace + 1) IN
    IF ~LitAt(s, key, URL_KEY) THEN Undefined ELSE
    LET open == SkipWhitespace(s, key + Len(URL_KEY)) IN
    IF ~CharAt(s, open, "\"") THEN Undefined ELSE
    LET close == ClosingQuote(s, open + 1) IN
    IF close = open + 1 \/ close > Len(s) THEN Undefined ELSE
    LET end == SkipWhitespace(s, close + 1) IN
    IF ~CharAt(s, end, "}") THEN Undefined ELSE
    Some(SubSeq(s, open + 1, close - 1))

\* mutant: the rightmost match instead of the leftmost
AudioPreviewMatchLast(html) ==
    LET starts == {i \in 1..Len(html) : AudioPreviewMatchAt(html, i) # Undefined}
    IN  IF starts = {} THEN Null ELSE AudioPreviewMatchAt(html, Max(starts))

\* html.match(regex), then match ? match[1] : null
AudioPreviewMatch(html) ==
    LET starts == {i \in 1..Len(html) : AudioPreviewMatchAt(html, i) # Undefined}
    IN  IF starts = {} THEN Null ELSE AudioPreviewMatchAt(html, Min(starts))

\* mutant: only a missing match counts as no preview
NoPreviewNullOnly(url) == url = Null

\* if (!url || !url.includes("https://")): url is null, or "", or lacks https://
NoPreview(url) ==
    \/ url = Null
    \/ url[1] = <<>>
    \/ ~Includes(url[1], HTTPS)

\* mutant: throws unless options.throws is false
ExtractPreviewThrowsByDefault(html, id, o) ==
    LET url == AudioPreviewMatch(html)
    IN  IF NoPreview(url)
        THEN IF o # "false"
             THEN Throw(NoPreviewAvailableError(id))
             ELSE Return(Null)
        ELSE Return(url)

\* the body of the second try block after the text has been read
ExtractPreview(html, id, o) ==
    LET url == AudioPreviewMatch(html)
    IN  IF NoPreview(url)
        THEN IF Truthy(o)
             THEN Throw(NoPreviewAvailableError(id))
             ELSE Return(Null)
        ELSE Return(url)

\* mutant: the catch wraps every error, the typed ones too
FetchCatchWrapsAll(end) ==
    IF end.kind = "throw"
    THEN Throw(SpotifyApiError(end.value.about, Undefined))
    ELSE end

\* mutant: the catch rethrows whatever it caught
FetchCatchRethrows(end) == end

\* mutant: the catch wraps an untyped error in the base class
FetchCatchWrapsInBase(end) ==
    IF end.kind = "throw" /\ ~IsSpotifyPreviewError(end.value)
    THEN Throw(SpotifyPreviewError(end.value.about))
    ELSE end

\* the catch of the second try block, given how the block ended
FetchCatch(end) ==
    IF end.kind = "throw" /\ ~IsSpotifyPreviewError(end.value)
    THEN Throw(SpotifyApiError(end.value.about, Undefined))
    ELSE end

(***************************************************************************)
(* Inputs: the strings the callers pass and the answers of the transport   *)
(***************************************************************************)
\* raw ids are generated with every length 0..MaxIdLen
MaxIdLen == 23
\* whitespace runs of the response body have every length 0..MaxWhitespace
MaxWhitespace == 1

Fill(n, c) == [i \in 1..n |-> c]
Replace(s, p, c) == [i \in 1..Len(s) |-> IF i = p THEN c ELSE s[i]]

FillChars == {"a", "Z", "7"}
OtherChars == {"-", "_", "?", "/", " ", "\n", "."}

SAMPLE_ID == <<"3","z","h","b","X","K","F","j","U","D","w","4","0","p","T","Y","y","C","g","t","1","Y">>
INVALID_ID == <<"i","n","v","a","l","i","d","-","i","d">>
NOT_A_URL == <<"n","o","t","-","a","-","v","a","l","i","d","-","u","r","l">>
OPEN_SPOTIFY == <<"h","t","t","p","s",":","/","/","o","p","e","n",".","s","p","o","t","i","f","y",".","c","o","m">>
GOOGLE == <<"h","t","t","p","s",":","/","/","w","w","w",".","g","o","o","g","l","e",".","c","o","m">>
ALBUM_SEGMENT == <<"/","a","l","b","u","m","/">>
QUERY == <<"?","s","i","=","f","8","5","0","d","1">>

\* strings of one repeated alphanumeric, and the same with one character
\* replaced (first, middle or last) by a character outside the class
RawIds(lengths) ==
    LET plain == {Fill(n, c) : n \in lengths, c \in FillChars}
    IN  plain \cup {Replace(s, p, o) :
                      s \in plain, p \in {1, 11, MaxIdLen - 1, MaxIdLen}, o \in OtherChars}

\* the arguments of the direct validateSpotifyTrackId calls
ValidateInputs ==
    RawIds(0..MaxIdLen)
      \cup {SAMPLE_ID, INVALID_ID, NOT_A_URL, GOOGLE,
            OPEN_SPOTIFY \o TRACK_SEGMENT \o SAMPLE_ID,
            SAMPLE_ID \o <<"\n">>, <<" ">> \o SAMPLE_ID}

Hosts == {<<>>, OPEN_SPOTIFY, SPOTIFY_COM, GOOGLE}
Segments == {<<>>, TRACK_SEGMENT, ALBUM_SEGMENT, <<"/","t","r","a","c","k">>}
UrlIds == {<<>>, SAMPLE_ID, Fill(TrackIdLength, "a"), <<"Z","z","9">>,
           <<"a","b","-","c","d">>, <<"-","a","b">>}
\* what follows the id; the ones that begin with '?' are query strings
Tails == {<<>>, <<"?">>, QUERY, <<"/">>, <<"#","t">>, <<"&","a","=","1">>, <<"\n">>,
          <<"?","?">>, <<"?">> \o TRACK_SEGMENT \o <<"Z","z","9">>,
          <<"?","x">> \o TRACK_SEGMENT \o <<"a","b","?","y">>,
          TRACK_SEGMENT \o <<"Z","z","9">>,
          TRACK_SEGMENT \o <<"Z","z","9","?","q">>}

\* the arguments of the direct extractTrackIdFromUrl calls
ExtractInputs ==
    {h \o s \o i \o t : h \in Hosts, s \in Segments, i \in UrlIds, t \in Tails}
      \cup {NOT_A_URL, INVALID_ID}

\* the track arguments of getPreview
TrackInputs ==
    RawIds({TrackIdLength - 1, TrackIdLength, TrackIdLength + 1})
      \cup {<<>>, SAMPLE_ID, INVALID_ID, NOT_A_URL, GOOGLE, SAMPLE_ID \o <<"\n">>,
            GOOGLE \o TRACK_SEGMENT \o SAMPLE_ID}
      \cup {OPEN_SPOTIFY \o s \o i \o t :
              s \in {TRACK_SEGMENT, ALBUM_SEGMENT},
              i \in {<<>>, SAMPLE_ID, <<"Z","z","9">>, <<"a","b","-","c","d">>},
              t \in {<<>>, QUERY, <<"/">>,
                     <<"?","x">> \o TRACK_SEGMENT \o <<"a","b","?","y">>}}
      \cup {SPOTIFY_COM \o TRACK_SEGMENT \o SAMPLE_ID \o <<"?">>}

\* options undefined or without throws, throws: false, throws: true
ThrowsValues == {"undefined", "false", "true"}

PREVIEW_URL == <<"h","t","t","p","s",":","/","/","e",".","c","o","/","p",".","m","p","3">>
\* values of the "url" field (none holds a double quote)
UrlValues ==
    {PREVIEW_URL,
     <<"h","t","t","p",":","/","/","e",".","c","o","/","p">>,
     <<"/","p",".","m","p","3">>,
     <<"b","l","o","b",":">> \o PREVIEW_URL,
     <<"h","t","t","p","s",":","/","/","e","/","a"," ","}">>,
     <<"h","t","t","p","s",":","/">>}

WhitespaceRuns ==
    {Fill(n, " ") : n \in 0..MaxWhitespace} \cup {<<"\n", "\t">>}

\* "audioPreview": {"url": "<v>"} with the whitespace run w wherever the
\* pattern allows whitespace
Fragment(w, v) ==
    AUDIO_PREVIEW_KEY \o w \o <<"{">> \o w \o URL_KEY \o w
      \o <<"\"">> \o v \o <<"\"">> \o w \o <<"}">>

\* what surrounds the fragment in the document: <<before, after>>
BodyWrappers ==
    {<< <<>>, <<>> >>,
     << <<"<","s","c","r","i","p","t",">","{","\"","i","d","\"",":","1",",">>,
        <<",","\"","k","\"",":","1","}">> >>}

\* a document that holds exactly one audioPreview fragment
OneFragmentBody(pre, w, v, post) == pre \o Fragment(w, v) \o post

OneFragmentBodies ==
    {OneFragmentBody(x[1], w, v, x[2]) :
       x \in BodyWrappers, w \in WhitespaceRuns, v \in UrlValues}

OTHER_DATA == <<"{","\"","s","o","m","e","O","t","h","e","r","D","a","t","a","\"",":"," ","\"","v","a","l","u","e","\"","}">>

\* documents without a fragment of the pattern's shape, and documents with two
OtherBodies ==
    {<<>>, OTHER_DATA,
     \* an empty url value
     Fragment(<<" ">>, <<>>),
     \* a second field after "url"
     AUDIO_PREVIEW_KEY \o <<"{">> \o URL_KEY \o <<"\"">> \o PREVIEW_URL
        \o <<"\"",",","\"","k","\"",":","1","}">>,
     \* the string never closes
     AUDIO_PREVIEW_KEY \o <<"{">> \o URL_KEY \o <<"\"">> \o PREVIEW_URL,
     \* not the "url" key
     AUDIO_PREVIEW_KEY \o <<"{","\"","u","r","i","\"",":","\"">> \o PREVIEW_URL \o <<"\"","}">>,
     Fragment(<<>>, <<"/","p">>) \o <<" ">> \o Fragment(<<>>, PREVIEW_URL),
     Fragment(<<>>, PREVIEW_URL) \o <<" ">> \o Fragment(<<>>, <<"/","p">>)}

Bodies == OneFragmentBodies \cup OtherBodies

SuccessStatuses == {200, 299}
FailureStatuses == {0, 199, 300, 429, 500}

\* how the transport answers one request: fetch rejects; or it resolves with a
\* response whose text() resolves with the body, or rejects
Rejected == [settle |-> "reject", status |-> 0, text |-> "none", body |-> <<>>]
Responses ==
    {Rejected}
      \cup [settle : {"resolve"}, status : SuccessStatuses, text : {"resolve"}, body : Bodies]
      \cup [settle : {"resolve"}, status : SuccessStatuses, text : {"reject"}, body : {<<>>}]
      \cup [settle : {"resolve"}, status : FailureStatuses, text : {"resolve"},
            body : {OTHER_DATA, Fragment(<<" ">>, PREVIEW_URL)}]
NoResponse == [settle |-> "none", status |-> 0, text |-> "none", body |-> <<>>]

\* the error a failed fetch or a failed text() rejects with
NETWORK_FAILURE == <<"N","e","t","w","o","r","k"," ","f","a","i","l","u","r","e">>

(***************************************************************************)
(* The state machine                                                       *)
(***************************************************************************)
\* the getPreview calls of the specification Spec
(***************************************************************************)
(* The logger: types/logger.types.ts and the class Logger of               *)
(* utils/logger.utils.ts.  A Logger object is the record of its three      *)
(* private fields; LoggerOptions is the record of its three optional       *)
(* fields; a custom sink is named by a string.                             *)
(***************************************************************************)
LogLevel_NONE == 0
LogLevel_ERROR == 1
LogLevel_WARN == 2
LogLevel_INFO == 3
LogLevel_DEBUG == 4

\* the options object {}
NoOptions == [level |-> Undefined, custom |-> Undefined, timestamps |-> Undefined]

\* new Logger(options)
NewLogger(options) ==
    [level |-> IF options.level = Undefined THEN LogLevel_NONE ELSE options.level[1],
     custom |-> options.custom,
     timestamps |-> options.timestamps # Some(FALSE)]

\* getTimestamp(): whether the line starts with a timestamp
getTimestamp(l) == l.timestamps

\* what a logging method does once the level lets the message through: the
\* custom sink gets (level, message, data), the console gets the prefixed line
Write(l, name, console, message) ==
    IF l.custom # Undefined
    THEN <<[sink |-> l.custom[1], level |-> name, timestamp |-> FALSE,
            message |-> message]>>
    ELSE <<[sink |-> console, level |-> name, timestamp |-> getTimestamp(l),
            message |-> message]>>

\* Logger.error(message): the lines written
Logger_error(l, message) ==
    IF l.level >= LogLevel_ERROR
    THEN Write(l, "ERROR", "console.error", message)
    ELSE <<>>

\* mutant: warnings need a level above WARN
Logger_warnStrict(l, message) ==
    IF l.level > LogLevel_WARN
    THEN Write(l, "WARN", "console.warn", message)
    ELSE <<>>

\* Logger.warn(message)
Logger_warn(l, message) ==
    IF l.level >= LogLevel_WARN
    THEN Write(l, "WARN", "console.warn", message)
    ELSE <<>>

\* Logger.info(message)
Logger_info(l, message) ==
    IF l.level >= LogLevel_INFO
    THEN Write(l, "INFO", "console.info", message)
    ELSE <<>>

\* Logger.debug(message)
Logger_debug(l, message) ==
    IF l.level >= LogLevel_DEBUG
    THEN Write(l, "DEBUG", "console.debug", message)
    ELSE <<>>

\* Logger.configure(options): the object after the call
Logger_configure(l, options) ==
    [level |-> IF options.level # Undefined THEN options.level[1] ELSE l.level,
     custom |-> IF options.custom # Undefined THEN options.custom ELSE l.custom,
     timestamps |-> IF options.timestamps # Undefined
                    THEN options.timestamps[1] ELSE l.timestamps]

\* Logger.clone(): the new object
Logger_clone(l) ==
    [level |-> l.level, custom |-> l.custom, timestamps |-> l.timestamps]

\* mutant: the receiver itself is configured and returned
Logger_withOptionsInPlace(l, options) ==
    [self |-> Logger_configure(l, options), result |-> Logger_configure(l, options)]

\* Logger.withOptions(options): the receiver after the call and the logger
\* returned
Logger_withOptions(l, options) ==
    [self |-> l, result |-> Logger_configure(Logger_clone(l), options)]

\* withLogger(fn, options) up to the call of fn: logger.withOptions(options || {})
withLogger(options) ==
    Logger_withOptions(currentLogger,
                       IF options = Undefined THEN NoOptions ELSE options[1])

\* one call of a logging method, <<method, message>>, on logger l
LogCall(l, m) ==
    CASE m[1] = "error" -> Logger_error(l, m[2])
      [] m[1] = "warn"  -> Logger_warn(l, m[2])
      [] m[1] = "info"  -> Logger_info(l, m[2])
      [] m[1] = "debug" -> Logger_debug(l, m[2])

\* the calls ms made in order on logger l
RECURSIVE LogCalls(_, _)
LogCalls(l, ms) ==
    IF ms = <<>> THEN <<>> ELSE LogCall(l, Head(ms)) \o LogCalls(l, Tail(ms))

\* the logging calls of extractTrackIdFromUrl(url, log)
extractTrackIdFromUrl_log(url) ==
    <<<<"debug", "Extracting track ID from URL">>>>
      \o (IF ~Includes(url, SPOTIFY_COM) \/ ~Includes(url, TRACK_SEGMENT)
          THEN <<<<"error", "URL does not contain">>>>
          ELSE IF extractTrackIdFromUrl(url).kind = "throw"
               THEN <<<<"error", "Failed to extract track ID from URL">>>>
               ELSE <<<<"debug", "Successfully extracted track ID">>>>)

\* the logging calls of validateSpotifyTrackId(trackId, log)
validateSpotifyTrackId_log(id) ==
    <<<<"debug", "Validating track ID">>>>
      \o (IF validateSpotifyTrackId(id).kind = "throw"
          THEN <<<<"error", "Invalid track ID format">>>>
          ELSE <<<<"debug", "Track ID is valid">>>>)

\* the logging calls of processTrack up to its first await
StartCall_log(t) ==
    <<<<"info", "Processing track identifier">>>>
      \o (IF Includes(t, SPOTIFY_COM)
          THEN <<<<"debug", "Treating input as a Spotify URL">>>>
                 \o extractTrackIdFromUrl_log(t)
                 \o (IF extractTrackIdFromUrl(t).kind = "throw"
                     THEN <<>> ELSE <<<<"info", "Extracted track ID">>>>)
          ELSE <<<<"debug", "Treating input as a track ID">>>>
                 \o validateSpotifyTrackId_log(t)
                 \o (IF validateSpotifyTrackId(t).kind = "throw"
                     THEN <<>> ELSE <<<<"info", "Validated track ID format">>>>))
      \o (IF ResolveIdentifier(t).end.kind = "throw"
          THEN <<<<"error", "Track identifier error">>>>
          ELSE <<<<"debug", "Fetching from URL">>>>)

\* the logging calls of processTrack from the settling of fetch on
AfterFetch_log(r) ==
    IF r.settle = "reject"
    THEN <<<<"error", "Fetch or parsing error">>>>
    ELSE <<<<"debug", "Response status">>>>
           \o (IF ~Ok(r.status) THEN <<<<"error", "API error">>>> ELSE <<>>)

\* the logging calls of processTrack from the settling of response.text() on
AfterText_log(r) ==
    IF r.text = "reject"
    THEN <<<<"error", "Fetch or parsing error">>>>
    ELSE IF NoPreview(AudioPreviewMatch(r.body))
         THEN <<<<"warn", "No preview URL found">>>>
         ELSE <<<<"info", "Found preview URL">>, <<"debug", "Preview URL">>>>

\* the logger argument of processTrack: the export `logger` (the object
\* currentLogger) or the temporary logger withLogger made
NoLogger == [ref |-> "none", temp |-> NewLogger(NoOptions)]
GlobalLogger == [ref |-> "global", temp |-> NewLogger(NoOptions)]
TempLogger(l) == [ref |-> "temp", temp |-> l]

Calls == {1}

NoCall == [fn |-> "none", arg |-> <<>>, result |-> Pending]

Init ==
    /\ pc = [c \in Calls |-> "idle"]
    /\ track = [c \in Calls |-> <<>>]
    /\ throws = [c \in Calls |-> "undefined"]
    /\ trackId = [c \in Calls |-> Undefined]
    /\ requests = [c \in Calls |-> <<>>]
    /\ response = [c \in Calls |-> NoResponse]
    /\ outcome = [c \in Calls |-> Pending]
    /\ parsed = NoCall
    /\ currentLogger = NewLogger(NoOptions)
    /\ globalConfig = [logger |-> Undefined]
    /\ log = [c \in Calls |-> NoLogger]
    /\ emitted = [c \in Calls |-> <<>>]

\* mutant: fetch is called before the identifier is checked
StartCallFetchFirst(t) ==
    LET r == ResolveIdentifier(t)
    IN  IF r.end.kind = "throw"
        THEN [trackId |-> r.trackId, requests |-> <<EmbedUrl(t)>>,
              outcome |-> IdentifierCatch(r.end.value), pc |-> "done"]
        ELSE [trackId |-> r.trackId, requests |-> <<EmbedUrl(r.trackId[1])>>,
              outcome |-> Pending, pc |-> "awaitFetch"]

\* getPreview up to its first await: the first try block and its catch, then
\* the call of fetch
StartCall(t) ==
    LET r == ResolveIdentifier(t)
    IN  IF r.end.kind = "throw"
        THEN [trackId |-> r.trackId, requests |-> <<>>,
              outcome |-> IdentifierCatch(r.end.value), pc |-> "done"]
        ELSE [trackId |-> r.trackId, requests |-> <<EmbedUrl(r.trackId[1])>>,
              outcome |-> Pending, pc |-> "awaitFetch"]

\* mutant: a rejected fetch is awaited once more
AfterFetchRetries(r) ==
    IF r.settle = "reject"
    THEN [outcome |-> Pending, pc |-> "awaitFetch"]
    ELSE LET check == StatusCheck(r)
         IN  IF check.kind = "throw"
             THEN [outcome |-> FetchCatch(check), pc |-> "done"]
             ELSE [outcome |-> Pending, pc |-> "awaitText"]

\* mutant: the body is read before the status is looked at
AfterFetchReadsFirst(r) ==
    IF r.settle = "reject"
    THEN [outcome |-> FetchCatch(Throw(PlatformError(NETWORK_FAILURE))), pc |-> "done"]
    ELSE [outcome |-> Pending, pc |-> "awaitText"]

\* getPreview from the settling of fetch to its next await or its end
AfterFetch(r) ==
    IF r.settle = "reject"
    THEN [outcome |-> FetchCatch(Throw(PlatformError(NETWORK_FAILURE))), pc |-> "done"]
    ELSE LET check == StatusCheck(r)
         IN  IF check.kind = "throw"
             THEN [outcome |-> FetchCatch(check), pc |-> "done"]
             ELSE [outcome |-> Pending, pc |-> "awaitText"]

\* getPreview from the settling of response.text() to its end
AfterText(r, id, o) ==
    IF r.text = "reject"
    THEN FetchCatch(Throw(PlatformError(NETWORK_FAILURE)))
    ELSE FetchCatch(ExtractPreview(r.body, id, o))

\* a caller calls getPreview(t, options)
GetPreview(c, t, o) ==
    /\ pc[c] = "idle"
    /\ LET s == StartCall(t)
       IN  /\ track' = [track EXCEPT ![c] = t]
           /\ throws' = [throws EXCEPT ![c] = o]
           /\ trackId' = [trackId EXCEPT ![c] = s.trackId]
           /\ requests' = [requests EXCEPT ![c] = requests[c] \o s.requests]
           /\ outcome' = [outcome EXCEPT ![c] = s.outcome]
           /\ pc' = [pc EXCEPT ![c] = s.pc]
    /\ UNCHANGED <<response, parsed, loggerVars>>

\* the promise of fetch settles and the call resumes
FetchSettles(c, r) ==
    /\ pc[c] = "awaitFetch"
    /\ response' = [response EXCEPT ![c] = r]
    /\ LET s == AfterFetch(r)
       IN  /\ outcome' = [outcome EXCEPT ![c] = s.outcome]
           /\ pc' = [pc EXCEPT ![c] = s.pc]
    /\ UNCHANGED <<track, throws, trackId, requests, parsed, loggerVars>>

\* mutant: trackId is one variable shared by the calls, holding the id of the
\* highest call that has assigned it
TextSettlesSharedTrackId(c) ==
    /\ pc[c] = "awaitText"
    /\ LET shared == Max({d \in DOMAIN pc : trackId[d] # Undefined})
       IN  outcome' = [outcome EXCEPT ![c] =
                         AfterText(response[c], trackId[shared][1], throws[c])]
    /\ pc' = [pc EXCEPT ![c] = "done"]
    /\ UNCHANGED <<track, throws, trackId, requests, response, parsed, loggerVars>>

\* the promise of response.text() settles and the call resumes
TextSettles(c) ==
    /\ pc[c] = "awaitText"
    /\ outcome' = [outcome EXCEPT ![c] = AfterText(response[c], trackId[c][1], throws[c])]
    /\ pc' = [pc EXCEPT ![c] = "done"]
    /\ UNCHANGED <<track, throws, trackId, requests, response, parsed, loggerVars>>

Next ==
    \E c \in DOMAIN pc :
        \/ \E t \in TrackInputs, o \in ThrowsValues : GetPreview(c, t, o)
        \/ \E r \in Responses : FetchSettles(c, r)
        \/ TextSettles(c)

Spec == Init /\ [][Next]_vars

\* two getPreview calls in flight at once
ConcurrentCalls == {1, 2}

ConcurrentInit ==
    /\ pc = [c \in ConcurrentCalls |-> "idle"]
    /\ track = [c \in ConcurrentCalls |-> <<>>]
    /\ throws = [c \in ConcurrentCalls |-> "undefined"]
    /\ trackId = [c \in ConcurrentCalls |-> Undefined]
    /\ requests = [c \in ConcurrentCalls |-> <<>>]
    /\ response = [c \in ConcurrentCalls |-> NoResponse]
    /\ outcome = [c \in ConcurrentCalls |-> Pending]
    /\ parsed = NoCall
    /\ currentLogger = NewLogger(NoOptions)
    /\ globalConfig = [logger |-> Undefined]
    /\ log = [c \in ConcurrentCalls |-> NoLogger]
    /\ emitted = [c \in ConcurrentCalls |-> <<>>]

ConcurrentTracks ==
    {SAMPLE_ID, INVALID_ID, OPEN_SPOTIFY \o TRACK_SEGMENT \o <<"Z","z","9">> \o QUERY}

ConcurrentThrows == {"undefined", "true"}

ConcurrentResponses ==
    {Rejected,
     [settle |-> "resolve", status |-> 500, text |-> "resolve", body |-> OTHER_DATA],
     [settle |-> "resolve", status |-> 200, text |-> "resolve", body |-> OTHER_DATA],
     [settle |-> "resolve", status |-> 200, text |-> "resolve",
      body |-> Fragment(<<" ">>, PREVIEW_URL)],
     [settle |-> "resolve", status |-> 200, text |-> "reject", body |-> <<>>]}

ConcurrentNext ==
    \E c \in DOMAIN pc :
        \/ \E t \in ConcurrentTracks, o \in ConcurrentThrows : GetPreview(c, t, o)
        \/ \E r \in ConcurrentResponses : FetchSettles(c, r)
        \/ TextSettles(c)

\* the calls of getPreview interleaved at their awaits
ConcurrentSpec == ConcurrentInit /\ [][ConcurrentNext]_vars

\* a caller calls validateSpotifyTrackId(s)
CallValidate(s) ==
    /\ parsed = NoCall
    /\ parsed' = [fn |-> "validateSpotifyTrackId", arg |-> s,
                  result |-> validateSpotifyTrackId(s)]
    /\ UNCHANGED <<callVars, loggerVars>>

\* a caller calls extractTrackIdFromUrl(s)
CallExtract(s) ==
    /\ parsed = NoCall
    /\ parsed' = [fn |-> "extractTrackIdFromUrl", arg |-> s,
                  result |-> extractTrackIdFromUrl(s)]
    /\ UNCHANGED <<callVars, loggerVars>>

ParserNext ==
    \/ \E s \in ValidateInputs : CallValidate(s)
    \/ \E s \in ExtractInputs : CallExtract(s)

\* the direct calls of the two exported parser functions
ParserSpec == Init /\ [][ParserNext]_vars

(***************************************************************************)
(* The logger-aware calls: configure, getPreview with processTrack, and    *)
(* withLogger around extractTrackIdFromUrl.                                *)
(***************************************************************************)
SINK == "sink"

LevelOptions(n) == [level |-> Some(n), custom |-> Undefined, timestamps |-> Undefined]

\* the LoggerOptions objects given to configure
ConfigureLoggerInputs ==
    {LevelOptions(n) : n \in LogLevel_NONE..LogLevel_DEBUG}
      \cup {[level |-> Undefined, custom |-> Some(SINK), timestamps |-> Undefined],
            [level |-> Undefined, custom |-> Undefined, timestamps |-> Some(FALSE)],
            [level |-> Some(LogLevel_DEBUG), custom |-> Undefined, timestamps |-> Some(TRUE)]}

\* configure(config): config.logger absent or given
ConfigInputs ==
    {[logger |-> Undefined]} \cup {[logger |-> Some(L)] : L \in ConfigureLoggerInputs}

\* options.logger of getPreview and the options of withLogger: absent or given
CallLoggerInputs ==
    {Undefined, Some(NoOptions), Some(LevelOptions(LogLevel_DEBUG)),
     Some([level |-> Some(LogLevel_WARN), custom |-> Some(SINK), timestamps |-> Undefined]),
     Some([level |-> Undefined, custom |-> Undefined, timestamps |-> Some(FALSE)])}

LoggerTracks ==
    {SAMPLE_ID, INVALID_ID,
     OPEN_SPOTIFY \o TRACK_SEGMENT \o SAMPLE_ID \o QUERY}

LoggerThrows == {"undefined", "true"}

LoggerResponses ==
    {Rejected,
     [settle |-> "resolve", status |-> 500, text |-> "resolve", body |-> OTHER_DATA],
     [settle |-> "resolve", status |-> 200, text |-> "resolve", body |-> OTHER_DATA],
     [settle |-> "resolve", status |-> 200, text |-> "resolve",
      body |-> Fragment(<<" ">>, PREVIEW_URL)],
     [settle |-> "resolve", status |-> 200, text |-> "reject", body |-> <<>>]}

\* mutant: every call logs to the global logger
LoggerOfGlobal(c) == currentLogger

\* the logger the calls of call c go to
LoggerOf(c) == IF log[c].ref = "temp" THEN log[c].temp ELSE currentLogger

\* mutant: configure keeps the options without applying them to the logger
ConfigureLoggerKeeps(config) == currentLogger

\* configure(config): Logger.configure(config.logger) when config.logger is given
ConfigureLogger(config) ==
    IF config.logger # Undefined
    THEN Logger_configure(currentLogger, config.logger[1])
    ELSE currentLogger

\* a caller calls configure(config)
Configure(config) ==
    /\ globalConfig' = [logger |-> IF config.logger # Undefined
                                   THEN config.logger ELSE globalConfig.logger]
    /\ currentLogger' = ConfigureLogger(config)
    /\ UNCHANGED <<callVars, parsed, log, emitted>>

\* a caller calls getPreview(t, options) of the logger-aware index.ts:
\* processTrack with the global logger, or inside withLogger, up to the
\* first await
LoggedGetPreview(c, t, o, lo) ==
    /\ pc[c] = "idle"
    /\ LET s == StartCall(t)
           w == withLogger(lo)
       IN  /\ track' = [track EXCEPT ![c] = t]
           /\ throws' = [throws EXCEPT ![c] = o]
           /\ trackId' = [trackId EXCEPT ![c] = s.trackId]
           /\ requests' = [requests EXCEPT ![c] = requests[c] \o s.requests]
           /\ outcome' = [outcome EXCEPT ![c] = s.outcome]
           /\ pc' = [pc EXCEPT ![c] = s.pc]
           /\ currentLogger' = IF lo = Undefined THEN currentLogger ELSE w.self
           /\ log' = [log EXCEPT ![c] =
                        IF lo = Undefined THEN GlobalLogger ELSE TempLogger(w.result)]
           /\ emitted' = [emitted EXCEPT ![c] =
                            LogCalls(IF lo = Undefined THEN currentLogger ELSE w.result,
                                     StartCall_log(t))]
    /\ UNCHANGED <<response, parsed, globalConfig>>

\* the promise of fetch settles and processTrack resumes
LoggedFetchSettles(c, r) ==
    /\ pc[c] = "awaitFetch"
    /\ response' = [response EXCEPT ![c] = r]
    /\ LET s == AfterFetch(r)
       IN  /\ outcome' = [outcome EXCEPT ![c] = s.outcome]
           /\ pc' = [pc EXCEPT ![c] = s.pc]
    /\ emitted' = [emitted EXCEPT ![c] = LogCalls(LoggerOf(c), AfterFetch_log(r))]
    /\ UNCHANGED <<track, throws, trackId, requests, parsed,
                   currentLogger, globalConfig, log>>

\* mutant: where the warning is written, null is returned whatever
\* options.throws is
LoggedTextSettlesWarned(c) ==
    /\ pc[c] = "awaitText"
    /\ outcome' = [outcome EXCEPT ![c] =
                     IF LogCalls(LoggerOf(c), AfterText_log(response[c])) # <<>>
                        /\ LogCalls(LoggerOf(c), AfterText_log(response[c]))[1].level = "WARN"
                     THEN Return(Null)
                     ELSE AfterText(response[c], trackId[c][1], throws[c])]
    /\ pc' = [pc EXCEPT ![c] = "done"]
    /\ emitted' = [emitted EXCEPT ![c] = LogCalls(LoggerOf(c), AfterText_log(response[c]))]
    /\ UNCHANGED <<track, throws, trackId, requests, response, parsed,
                   currentLogger, globalConfig, log>>

\* the promise of response.text() settles and processTrack resumes
LoggedTextSettles(c) ==
    /\ pc[c] = "awaitText"
    /\ outcome' = [outcome EXCEPT ![c] = AfterText(response[c], trackId[c][1], throws[c])]
    /\ pc' = [pc EXCEPT ![c] = "done"]
    /\ emitted' = [emitted EXCEPT ![c] = LogCalls(LoggerOf(c), AfterText_log(response[c]))]
    /\ UNCHANGED <<track, throws, trackId, requests, response, parsed,
                   currentLogger, globalConfig, log>>

\* a caller calls withLogger(async (log) => extractTrackIdFromUrl(s, log), lo)
WithLoggerExtract(c, s, lo) ==
    /\ pc[c] = "idle"
    /\ parsed = NoCall
    /\ LET w == withLogger(lo)
       IN  /\ currentLogger' = w.self
           /\ log' = [log EXCEPT ![c] = TempLogger(w.result)]
           /\ emitted' = [emitted EXCEPT ![c] =
                            LogCalls(w.result, extractTrackIdFromUrl_log(s))]
    /\ parsed' = [fn |-> "withLogger", arg |-> s, result |-> extractTrackIdFromUrl(s)]
    /\ pc' = [pc EXCEPT ![c] = "done"]
    /\ UNCHANGED <<track, throws, trackId, requests, response, outcome, globalConfig>>

LoggerNext ==
    \/ \E config \in ConfigInputs : Configure(config)
    \/ \E c \in DOMAIN pc :
        \/ \E t \in LoggerTracks, o \in LoggerThrows, lo \in CallLoggerInputs :
              LoggedGetPreview(c, t, o, lo)
        \/ \E r \in LoggerResponses : LoggedFetchSettles(c, r)
        \/ LoggedTextSettles(c)
        \/ \E s \in {OPEN_SPOTIFY \o TRACK_SEGMENT \o SAMPLE_ID, GOOGLE},
              lo \in CallLoggerInputs : WithLoggerExtract(c, s, lo)

\* the calls of the logger-aware package
LoggerSpec == Init /\ [][LoggerNext]_vars

(***************************************************************************)
(* Properties                                                              *)
(***************************************************************************)
ValidateCalled == parsed.fn = "validateSpotifyTrackId"
ExtractCalled == parsed.fn = "extractTrackIdFromUrl"

ThrewNamed(end, name) == end.kind = "throw" /\ end.value.name = name
Returned(end, v) == end.kind = "return" /\ end.value = v

\* s is 22 characters, each a letter or a digit
Is22Alnum(s) == Len(s) = 22 /\ \A i \in 1..Len(s) : s[i] \in Alnum

TRACK_URL_PREFIX == OPEN_SPOTIFY \o TRACK_SEGMENT

\* url is https://open.spotify.com/track/<id>?<anything>, id 22 alphanumerics
IsTrackUrlWithQuery(url) ==
    /\ Len(url) >= Len(TRACK_URL_PREFIX) + 22 + 1
    /\ SubSeq(url, 1, Len(TRACK_URL_PREFIX)) = TRACK_URL_PREFIX
    /\ Is22Alnum(SubSeq(url, Len(TRACK_URL_PREFIX) + 1, Len(TRACK_URL_PREFIX) + 22))
    /\ url[Len(TRACK_URL_PREFIX) + 23] = "?"

\* C3: for https://open.spotify.com/track/<id>?<anything> with a 22-character
\* alphanumeric id, extractTrackIdFromUrl returns exactly <id>.
C3_ExtractStripsQuery ==
    (ExtractCalled /\ IsTrackUrlWithQuery(parsed.arg)) =>
        /\ parsed.result.kind = "return"
        /\ parsed.result.value =
             SubSeq(parsed.arg, Len(TRACK_URL_PREFIX) + 1, Len(TRACK_URL_PREFIX) + 22)

C3_Witness ==
    /\ ExtractCalled
    /\ parsed.arg = TRACK_URL_PREFIX \o SAMPLE_ID \o <<"?","x">> \o TRACK_SEGMENT \o <<"a","b","?","y">>
    /\ Returned(parsed.result, SAMPLE_ID)

\* the identifier of call c resolves
Resolves(t) ==
    IF Includes(t, SPOTIFY_COM)
    THEN extractTrackIdFromUrl(t).kind = "return"
    ELSE Is22Alnum(t)

\* the track id the identifier resolves to
ResolvedId(t) ==
    IF Includes(t, SPOTIFY_COM) THEN extractTrackIdFromUrl(t).value ELSE t

Success(status) == 200 <= status /\ status < 300

\* call c has ended after a success response whose text was read
EndedWithBody(c) ==
    /\ pc[c] = "done"
    /\ response[c].settle = "resolve"
    /\ Success(response[c].status)
    /\ response[c].text = "resolve"

\* C4: with a success status and a body whose audioPreview fragment carries a
\* url value containing "https://", getPreview resolves to exactly that value
\* and its single request went to the embed URL of the resolved id, whatever
\* options.throws is.
C4_ResolvesToPreviewUrl ==
    \A c \in DOMAIN pc :
        \A x \in BodyWrappers, w \in WhitespaceRuns, v \in UrlValues :
            (/\ EndedWithBody(c)
             /\ Includes(v, HTTPS)
             /\ response[c].body = OneFragmentBody(x[1], w, v, x[2]))
                => /\ Returned(outcome[c], Some(v))
                   /\ requests[c] =
                        << <<"h","t","t","p","s",":","/","/","o","p","e","n",".",
                             "s","p","o","t","i","f","y",".","c","o","m","/",
                             "e","m","b","e","d","/","t","r","a","c","k","/">>
                           \o ResolvedId(track[c]) >>

C4_Witness ==
    \E c \in DOMAIN pc :
        /\ EndedWithBody(c)
        /\ track[c] = TRACK_URL_PREFIX \o SAMPLE_ID \o QUERY
        /\ throws[c] = "true"
        /\ response[c].body = Fragment(<<" ">>, PREVIEW_URL)
        /\ Returned(outcome[c], Some(PREVIEW_URL))
        /\ Len(requests[c]) = 1

\* no preview url is extracted from the body of call c's response
Absent(c) == NoPreview(AudioPreviewMatch(response[c].body))

\* C5: identifier resolved, success status, no preview url extracted and
\* options.throws not true: getPreview resolves to null.
C5_AbsentResolvesNull ==
    \A c \in DOMAIN pc :
        (EndedWithBody(c) /\ Absent(c) /\ throws[c] # "true")
            => Returned(outcome[c], Null)

C5_Witness ==
    \E c \in DOMAIN pc :
        /\ EndedWithBody(c)
        /\ response[c].body = OTHER_DATA
        /\ throws[c] = "undefined"
        /\ Returned(outcome[c], Null)

\* C6: identifier resolved to T, success status, no preview url extracted and
\* options.throws true: getPreview rejects with NoPreviewAvailableError whose
\* trackId is T, not with an ApiError.
C6_AbsentThrowsNoPreview ==
    \A c \in DOMAIN pc :
        (EndedWithBody(c) /\ Absent(c) /\ throws[c] = "true")
            => /\ ThrewNamed(outcome[c], "NoPreviewAvailableError")
               /\ outcome[c].value.trackId = Some(ResolvedId(track[c]))

C6_Witness ==
    \E c \in DOMAIN pc :
        /\ EndedWithBody(c)
        /\ track[c] = TRACK_URL_PREFIX \o SAMPLE_ID \o QUERY
        /\ response[c].body = Fragment(<<>>, <<"/","p",".","m","p","3">>)
        /\ ThrewNamed(outcome[c], "NoPreviewAvailableError")
        /\ outcome[c].value.trackId = Some(SAMPLE_ID)

\* C7: a response whose status is outside [200,300) makes getPreview reject
\* with SpotifyApiError whose statusCode is that status, whatever
\* options.throws is.
C7_FailureStatusIsApiError ==
    \A c \in DOMAIN pc :
        (/\ pc[c] = "done"
         /\ response[c].settle = "resolve"
         /\ ~Success(response[c].status))
            => /\ ThrewNamed(outcome[c], "SpotifyApiError")
               /\ outcome[c].value.statusCode = Some(response[c].status)

C7_Witness ==
    \E c \in DOMAIN pc :
        /\ pc[c] = "done"
        /\ response[c].settle = "resolve"
        /\ response[c].status = 429
        /\ throws[c] = "true"
        /\ ThrewNamed(outcome[c], "SpotifyApiError")
        /\ outcome[c].value.statusCode = Some(429)

\* the fetch of call c rejected, or the text() of its success response did
TransportFailed(c) ==
    \/ response[c].settle = "reject"
    \/ /\ response[c].settle = "resolve"
       /\ Success(response[c].status)
       /\ response[c].text = "reject"

\* C8: when fetch rejects or reading the body fails, getPreview rejects with
\* SpotifyApiError whose statusCode is undefined.
C8_TransportFailureIsApiError ==
    \A c \in DOMAIN pc :
        (pc[c] = "done" /\ TransportFailed(c))
            => /\ ThrewNamed(outcome[c], "SpotifyApiError")
               /\ outcome[c].value.statusCode = Undefined

C8_Witness ==
    \E c \in DOMAIN pc :
        /\ pc[c] = "done"
        /\ response[c].settle = "resolve"
        /\ response[c].text = "reject"
        /\ ThrewNamed(outcome[c], "SpotifyApiError")

\* C9: fetch is called only for an identifier that resolved; a call that
\* rejects with an identifier error has made no request and has no response.
C9_NoFetchBeforeResolution ==
    \A c \in DOMAIN pc :
        /\ (requests[c] # <<>> \/ response[c] # NoResponse) => Resolves(track[c])
        /\ (pc[c] = "done" /\ ~Resolves(track[c]))
              => (requests[c] = <<>> /\ outcome[c].kind = "throw")

C9_Witness ==
    \E c \in DOMAIN pc :
        /\ pc[c] = "done"
        /\ track[c] = INVALID_ID
        /\ ThrewNamed(outcome[c], "InvalidTrackIdError")
        /\ requests[c] = <<>>

\* C10: getPreview rejects with InvalidTrackIdError exactly when the input
\* lacks "spotify.com" and is not 22 alphanumerics, and with
\* InvalidSpotifyUrlError exactly when the input contains "spotify.com" and
\* extraction fails; the error is the parser's own, not null and not wrapped.
C10_IdentifierErrorsPropagate ==
    \A c \in DOMAIN pc :
        pc[c] = "done" =>
            /\ ThrewNamed(outcome[c], "InvalidTrackIdError")
                 <=> (~Includes(track[c], SPOTIFY_COM) /\ ~Is22Alnum(track[c]))
            /\ ThrewNamed(outcome[c], "InvalidSpotifyUrlError")
                 <=> (Includes(track[c], SPOTIFY_COM) /\ ~Resolves(track[c]))
            /\ ThrewNamed(outcome[c], "InvalidTrackIdError")
                 => outcome[c] = validateSpotifyTrackId(track[c])
            /\ ThrewNamed(outcome[c], "InvalidSpotifyUrlError")
                 => outcome[c] = extractTrackIdFromUrl(track[c])

C10_Witness ==
    \E c \in DOMAIN pc :
        /\ pc[c] = "done"
        /\ track[c] = OPEN_SPOTIFY \o ALBUM_SEGMENT \o SAMPLE_ID
        /\ ThrewNamed(outcome[c], "InvalidSpotifyUrlError")
        /\ outcome[c].value = InvalidSpotifyUrlError(track[c])

\* C11: one getPreview call invokes the transport at most once, and a rejected
\* fetch or a non-success status ends the call at once with SpotifyApiError.
C11_NoRetry ==
    \A c \in DOMAIN pc :
        /\ Len(requests[c]) <= 1
        /\ (\/ response[c].settle = "reject"
            \/ (response[c].settle = "resolve" /\ ~Success(response[c].status)))
              => /\ pc[c] = "done"
                 /\ ThrewNamed(outcome[c], "SpotifyApiError")
                 /\ Len(requests[c]) = 1

C11_Witness ==
    \E c \in DOMAIN pc :
        /\ response[c].settle = "reject"
        /\ pc[c] = "done"
        /\ ThrewNamed(outcome[c], "SpotifyApiError")
        /\ Len(requests[c]) = 1

\* C12: a call whose options.throws is not true ends with a url, with null,
\* or with InvalidTrackIdError, InvalidSpotifyUrlError or SpotifyApiError;
\* never with NoPreviewAvailableError.
C12_ThreeValuedOutcome ==
    \A c \in DOMAIN pc :
        (pc[c] = "done" /\ throws[c] # "true") =>
            \/ /\ outcome[c].kind = "return"
               /\ \/ outcome[c].value = Null
                  \/ Len(outcome[c].value) = 1
            \/ /\ outcome[c].kind = "throw"
               /\ outcome[c].value.name \in
                    {"InvalidTrackIdError", "InvalidSpotifyUrlError", "SpotifyApiError"}

C12_Witness ==
    \E c \in DOMAIN pc :
        /\ EndedWithBody(c)
        /\ throws[c] = "false"
        /\ Absent(c)
        /\ Returned(outcome[c], Null)

\* the input classes the documentation of the parser functions lists
NoTrackIdInputs ==
    {OPEN_SPOTIFY \o ALBUM_SEGMENT \o SAMPLE_ID, GOOGLE, NOT_A_URL}

\* C16: extractTrackIdFromUrl returns null, and does not throw, for a Spotify
\* URL without a track path, a non-Spotify URL and a string that is no URL.
C16_ExtractReturnsNull ==
    (ExtractCalled /\ parsed.arg \in NoTrackIdInputs)
        => Returned(parsed.result, Null)

\* C17: validateSpotifyTrackId returns false, and does not throw, for an id
\* that is too short, too long or holds a non-alphanumeric character.
C17_ValidateReturnsFalse ==
    (ValidateCalled /\ ~Is22Alnum(parsed.arg))
        => Returned(parsed.result, FALSE)

\* the index of the first "/track/" of t
FirstTrackSegment(t) ==
    Min({i \in 1..Len(t) : LitAt(t, i, TRACK_SEGMENT)})

\* what follows the first "/track/" of t, up to the first '?' or the end
SegmentAfterTrack(t) ==
    LET from == FirstTrackSegment(t) + Len(TRACK_SEGMENT)
        stop == Min({j \in from..(Len(t) + 1) : j > Len(t) \/ t[j] = "?"})
    IN  SubSeq(t, from, stop - 1)

\* t contains "spotify.com" and its /track/ segment is alphanumeric, but not
\* 22 characters long
HasShortOrLongSegment(t) ==
    /\ Includes(t, SPOTIFY_COM)
    /\ Includes(t, TRACK_SEGMENT)
    /\ SegmentAfterTrack(t) # <<>>
    /\ \A i \in 1..Len(SegmentAfterTrack(t)) : SegmentAfterTrack(t)[i] \in Alnum
    /\ Len(SegmentAfterTrack(t)) # 22

C19_OnlyHttpsAccepted ==
    \A c \in DOMAIN pc :
        /\ (pc[c] = "done" /\ outcome[c].kind = "return" /\ outcome[c].value # Null)
              => Includes(outcome[c].value[1], HTTPS)
        /\ \A x \in BodyWrappers, w \in WhitespaceRuns, v \in UrlValues \cup {<<>>} :
              (/\ EndedWithBody(c)
               /\ ~Includes(v, HTTPS)
               /\ response[c].body = OneFragmentBody(x[1], w, v, x[2]))
                  => IF throws[c] = "true"
                     THEN ThrewNamed(outcome[c], "NoPreviewAvailableError")
                     ELSE Returned(outcome[c], Null)

C19_Witness ==
    \E c \in DOMAIN pc :
        /\ EndedWithBody(c)
        /\ response[c].body =
             Fragment(<<>>, <<"h","t","t","p",":","/","/","e",".","c","o","/","p">>)
        /\ throws[c] = "undefined"
        /\ Returned(outcome[c], Null)

\* "/track/" followed by r occurs in url, followed by '?' or by the end
TerminatedOccurrence(url, r) ==
    \E i \in 1..Len(url) :
        /\ LitAt(url, i, TRACK_SEGMENT \o r)
        /\ LET after == i + Len(TRACK_SEGMENT) + Len(r)
           IN  after = Len(url) + 1 \/ url[after] = "?"

\* the alphanumeric substrings of url
AlnumSubstrings(url) ==
    {r \in {SubSeq(url, i, j) : i \in 1..Len(url), j \in 1..Len(url)} :
        r # <<>> /\ \A n \in 1..Len(r) : r[n] \in Alnum}

C13_TempLoggerLeavesGlobal ==
    [][\A c \in DOMAIN pc :
          (pc'[c] # pc[c] /\ log'[c].ref = "temp") =>
              /\ currentLogger'.level = currentLogger.level
              /\ currentLogger'.custom = currentLogger.custom
              /\ currentLogger'.timestamps = currentLogger.timestamps]_vars

C13_Witness ==
    \E c \in DOMAIN pc :
        /\ pc[c] = "done"
        /\ outcome[c].kind = "return"
        /\ log[c] = TempLogger([level |-> 4, custom |-> Undefined, timestamps |-> TRUE])
        /\ emitted[c] # <<>>
        /\ currentLogger = [level |-> 0, custom |-> Undefined, timestamps |-> TRUE]

\* the severity of a written line, by the level name it carries
SeverityOfName(name) ==
    CASE name = "ERROR" -> 1
      [] name = "WARN"  -> 2
      [] name = "INFO"  -> 3
      [] name = "DEBUG" -> 4

\* logger l has every field that options L gives, as L gives it
ConfiguredAs(l, L) ==
    /\ L.level # Undefined => l.level = L.level[1]
    /\ L.custom # Undefined => l.custom = L.custom
    /\ L.timestamps # Undefined => l.timestamps = L.timestamps[1]

\* the line was written the way options L ask for
WrittenAs(line, L) ==
    /\ L.level # Undefined => SeverityOfName(line.level) <= L.level[1]
    /\ L.custom # Undefined => line.sink = L.custom[1]
    /\ (L.custom = Undefined /\ L.timestamps # Undefined /\ line.sink # SINK)
          => line.timestamp = L.timestamps[1]

\* C14: once configure({logger: L}) has returned, and until the next configure,
\* the global logger has the level, timestamps and custom sink L gives, and
\* every step of a getPreview call without options.logger writes its lines
\* that way; with a level of INFO or above the call's first line is written.
C14_ConfiguredLoggerIsUsed ==
    [][/\ globalConfig'.logger # Undefined
             => ConfiguredAs(currentLogger', globalConfig'.logger[1])
       /\ \A c \in DOMAIN pc :
             (/\ pc'[c] # pc[c]
              /\ log'[c].ref = "global"
              /\ globalConfig.logger # Undefined) =>
                 /\ \A i \in 1..Len(emitted'[c]) :
                       WrittenAs(emitted'[c][i], globalConfig.logger[1])
                 /\ (/\ pc[c] = "idle"
                     /\ globalConfig.logger[1].level # Undefined
                     /\ globalConfig.logger[1].level[1] >= 3)
                       => /\ emitted'[c] # <<>>
                          /\ emitted'[c][1].message = "Processing track identifier"]_vars

C14_Witness ==
    \E c \in DOMAIN pc :
        /\ pc[c] = "done"
        /\ log[c].ref = "global"
        /\ globalConfig.logger = Some(LevelOptions(3))
        /\ emitted[c] = <<[sink |-> "console.info", level |-> "INFO",
                           timestamp |-> TRUE, message |-> "Found preview URL"]>>

\* the severity a logging method gives its message
SeverityOfMethod(method) ==
    CASE method = "error" -> 1
      [] method = "warn"  -> 2
      [] method = "info"  -> 3
      [] method = "debug" -> 4

\* the logging calls call c makes in the step being taken
StepCalls(c) ==
    IF pc[c] = "idle"
    THEN IF parsed' # parsed
         THEN extractTrackIdFromUrl_log(parsed'.arg)
         ELSE StartCall_log(track'[c])
    ELSE IF pc[c] = "awaitFetch"
         THEN AfterFetch_log(response'[c])
         ELSE AfterText_log(response[c])

\* the calls among ms whose severity is at most level, each as
\* <<severity, message>>
RECURSIVE Due(_, _)
Due(ms, level) ==
    IF ms = <<>> THEN <<>>
    ELSE (IF level >= SeverityOfMethod(Head(ms)[1])
          THEN <<<<SeverityOfMethod(Head(ms)[1]), Head(ms)[2]>>>>
          ELSE <<>>) \o Due(Tail(ms), level)

\* the lines written, each as <<severity, message>>
Written(lines) ==
    [i \in 1..Len(lines) |-> <<SeverityOfName(lines[i].level), lines[i].message>>]

\* C15: a message of severity ERROR(1), WARN(2), INFO(3) or DEBUG(4) is
\* written if and only if the level of the logger it goes to is at least its
\* severity; a logger at level NONE(0) writes nothing.
C15_LevelFilter ==
    [][\A c \in DOMAIN pc :
          pc'[c] # pc[c] =>
              /\ \A ms \in {StepCalls(c)} :
                    Written(emitted'[c]) =
                       Due(ms, IF log'[c].ref = "temp"
                               THEN log'[c].temp.level ELSE currentLogger'.level)
              /\ (log'[c].ref = "global" /\ currentLogger'.level = 0)
                    => emitted'[c] = <<>>]_vars

C15_Witness ==
    \E c \in DOMAIN pc :
        /\ pc[c] = "done"
        /\ log[c].ref = "temp"
        /\ log[c].temp.level = 2
        /\ emitted[c] = <<[sink |-> SINK, level |-> "WARN", timestamp |-> FALSE,
                           message |-> "No preview URL found"]>>

\* C21: the status check comes before the body read: with a non-success
\* status the call never waits for response.text(), and it ends with
\* SpotifyApiError carrying the status even when the body holds a valid
\* audioPreview fragment.
C21_StatusBeforeBody ==
    \A c \in DOMAIN pc :
        /\ pc[c] = "awaitText" => Success(response[c].status)
        /\ (response[c].settle = "resolve" /\ ~Success(response[c].status)) =>
              /\ pc[c] = "done"
              /\ ThrewNamed(outcome[c], "SpotifyApiError")
              /\ outcome[c].value.statusCode = Some(response[c].status)

C21_Witness ==
    \E c \in DOMAIN pc :
        /\ pc[c] = "done"
        /\ response[c].settle = "resolve"
        /\ response[c].status = 500
        /\ response[c].body = Fragment(<<" ">>, PREVIEW_URL)
        /\ ~NoPreview(AudioPreviewMatch(response[c].body))
        /\ ThrewNamed(outcome[c], "SpotifyApiError")

\* the four error kinds a caller is told about
TaxonomyNames ==
    {"InvalidTrackIdError", "InvalidSpotifyUrlError",
     "NoPreviewAvailableError", "SpotifyApiError"}

\* C22: whatever the input string, the response and options.throws, a
\* rejection of getPreview is an InvalidTrackIdError, InvalidSpotifyUrlError,
\* NoPreviewAvailableError or SpotifyApiError, each an instance of
\* SpotifyPreviewError.
C22_ClosedTaxonomy ==
    \A c \in DOMAIN pc :
        outcome[c].kind = "throw" =>
            /\ outcome[c].value.name \in TaxonomyNames
            /\ IsSpotifyPreviewError(outcome[c].value)

C22_Witness ==
    \E c \in DOMAIN pc :
        /\ pc[c] = "done"
        /\ response[c].settle = "resolve"
        /\ response[c].text = "reject"
        /\ throws[c] = "true"
        /\ outcome[c] = Throw(SpotifyApiError(NETWORK_FAILURE, Undefined))

\* a document of two audioPreview fragments, url values v1 then v2
TwoFragments(v1, v2) == Fragment(<<>>, v1) \o <<" ">> \o Fragment(<<>>, v2)

\* the url values that occur in the documents of two fragments
TwoFragmentValues == UrlValues \cup {<<"/","p">>}

\* C26: of several audioPreview fragments only the leftmost counts: the call
\* ends as it would for the url value of the first fragment, so a first value
\* without "https://" gives null or NoPreviewAvailableError even when the
\* second value is a valid https:// URL.
C26_FirstFragmentOnly ==
    \A c \in DOMAIN pc :
        \A v1 \in TwoFragmentValues, v2 \in TwoFragmentValues :
            (EndedWithBody(c) /\ response[c].body = TwoFragments(v1, v2)) =>
                IF Includes(v1, HTTPS)
                THEN Returned(outcome[c], Some(v1))
                ELSE IF throws[c] = "true"
                     THEN ThrewNamed(outcome[c], "NoPreviewAvailableError")
                     ELSE Returned(outcome[c], Null)

C26_Witness ==
    \E c \in DOMAIN pc :
        /\ EndedWithBody(c)
        /\ response[c].body = TwoFragments(<<"/","p">>, PREVIEW_URL)
        /\ throws[c] = "false"
        /\ Returned(outcome[c], Null)

\* how far a call with track t, options.throws o and transport answer r has
\* come when it runs alone and is at position p, and what it has settled with
AloneOutcome(t, o, r, p) ==
    CHOOSE end \in
        {IF s.pc = "done" THEN s.outcome
         ELSE IF p = "awaitFetch" THEN Pending
         ELSE IF f.pc = "done" THEN f.outcome
         ELSE IF p = "awaitText" THEN Pending
         ELSE AfterText(r, s.trackId[1], o) :
           s \in {StartCall(t)}, f \in {AfterFetch(r)}} : TRUE

\* the requests a call with track t makes when it runs alone
AloneRequests(t) == StartCall(t).requests

\* C23: under every interleaving of two calls at their awaits, the request and
\* the outcome of each call are those the call produces alone from its own
\* track, options.throws and response.
C23_CallsIndependent ==
    \A c \in DOMAIN pc :
        pc[c] # "idle" =>
            /\ requests[c] = AloneRequests(track[c])
            /\ outcome[c] = AloneOutcome(track[c], throws[c], response[c], pc[c])

C23_Witness ==
    /\ DOMAIN pc = ConcurrentCalls
    /\ pc[1] = "done"
    /\ pc[2] = "done"
    /\ requests[1] = <<EMBED_PREFIX \o SAMPLE_ID>>
    /\ requests[2] = <<EMBED_PREFIX \o <<"Z","z","9">> >>
    /\ outcome[1] = Throw(NoPreviewAvailableError(SAMPLE_ID))
    /\ outcome[2] = Return(Some(PREVIEW_URL))

Snapshot(g, L) ==
    [level |-> IF L.level = Undefined THEN g.level ELSE L.level[1],
     custom |-> IF L.custom = Undefined THEN g.custom ELSE L.custom,
     timestamps |-> IF L.timestamps = Undefined THEN g.timestamps ELSE L.timestamps[1]]

\* the line went to the sink of logger l, with the timestamp l asks for
WrittenBy(line, l) ==
    IF l.custom # Undefined
    THEN line.sink = l.custom[1]
    ELSE line.sink # SINK /\ line.timestamp = l.timestamps

====
